---- MODULE Spec2Model ----
(***************************************************************************)
(* The self-correcting SPARQL generation pipeline of backend/generation:   *)
(* the query normalizer and validator (utils/sparql_cleaner.py), the        *)
(* planner (generation/planner.py), the generate -> review -> correct      *)
(* loop and batch mode (generation/generate_sparql.py), and the            *)
(* construction of the capability (models/model_router.py, providers).     *)
(*                                                                         *)
(* A text is a sequence of one-character strings.  The text completion     *)
(* capability (ModelRouter.generate / generate_sync) is an oracle: its     *)
(* k-th call either raises or replies with a text.                         *)
(***************************************************************************)
EXTENDS Integers, Sequences, FiniteSets, TLC

\* ------------------------------------------------------------------------
\* Python text primitives, on sequences of characters
\* ------------------------------------------------------------------------

\* the characters str.strip() and the regex class \s remove
Whitespace == {" ", "\n", "\t"}

LowerLetters == <<"a","b","c","d","e","f","g","h","i","j","k","l","m","n","o","p","q","r","s","t","u","v","w","x","y","z">>

UpperLetters == <<"A","B","C","D","E","F","G","H","I","J","K","L","M","N","O","P","Q","R","S","T","U","V","W","X","Y","Z">>

DigitsUnderscore == <<"0","1","2","3","4","5","6","7","8","9","_">>

\* str.upper() on one character (also the case folding of the (?i) flag)
py_upper(c) ==
    IF \E i \in 1..26 : LowerLetters[i] = c
    THEN UpperLetters[CHOOSE i \in 1..26 : LowerLetters[i] = c]
    ELSE c

\* str.lower() on one character
py_lower(c) ==
    IF \E i \in 1..26 : UpperLetters[i] = c
    THEN LowerLetters[CHOOSE i \in 1..26 : UpperLetters[i] = c]
    ELSE c

\* the regex class \w, whose edge is the word boundary \b
IsWordChar(c) ==
    \/ \E i \in 1..26 : LowerLetters[i] = c \/ UpperLetters[i] = c
    \/ \E i \in 1..11 : DigitsUnderscore[i] = c

\* pat occurs in text at position i
MatchAt(text, i, pat) ==
    /\ i >= 1
    /\ i + Len(pat) - 1 <= Len(text)
    /\ \A k \in 1..Len(pat) : text[i + k - 1] = pat[k]

\* pat occurs in text at position i, letter case ignored
MatchAtCI(text, i, pat) ==
    /\ i >= 1
    /\ i + Len(pat) - 1 <= Len(text)
    /\ \A k \in 1..Len(pat) : py_upper(text[i + k - 1]) = py_upper(pat[k])

\* the end of the whitespace run \s* that starts at position i
RECURSIVE SkipWs(_, _)
SkipWs(text, i) ==
    IF i > Len(text) \/ text[i] \notin Whitespace THEN i ELSE SkipWs(text, i + 1)

\* the last position <= i that holds no whitespace (0 when there is none)
RECURSIVE SkipWsBack(_, _)
SkipWsBack(text, i) ==
    IF i < 1 \/ text[i] \notin Whitespace THEN i ELSE SkipWsBack(text, i - 1)

\* str.strip()
py_strip(text) == SubSeq(text, SkipWs(text, 1), SkipWsBack(text, Len(text)))

\* str.replace(old, new): every non-overlapping occurrence, left to right
RECURSIVE py_replace_from(_, _, _, _)
py_replace_from(text, i, old, new) ==
    IF i > Len(text) THEN << >>
    ELSE IF MatchAt(text, i, old)
         THEN new \o py_replace_from(text, i + Len(old), old, new)
         ELSE << text[i] >> \o py_replace_from(text, i + 1, old, new)

py_replace(text, old, new) == py_replace_from(text, 1, old, new)

\* str.find(ch): the first position of ch, 0 when absent (Python's -1)
py_find(text, ch) ==
    IF \E i \in 1..Len(text) : text[i] = ch
    THEN CHOOSE i \in 1..Len(text) : text[i] = ch /\ \A j \in 1..(i - 1) : text[j] # ch
    ELSE 0

\* str.rfind(ch): the last position of ch, 0 when absent (Python's -1)
py_rfind(text, ch) ==
    IF \E i \in 1..Len(text) : text[i] = ch
    THEN CHOOSE i \in 1..Len(text) : text[i] = ch /\ \A j \in (i + 1)..Len(text) : text[j] # ch
    ELSE 0

\* str.upper()
py_upper_text(text) == [i \in 1..Len(text) |-> py_upper(text[i])]

\* str.lower()
py_lower_text(text) == [i \in 1..Len(text) |-> py_lower(text[i])]

\* "sub in text": sub occurs in text
py_in(sub, text) == \E i \in 1..(Len(text) + 1) : MatchAt(text, i, sub)

\* the backtick character (a string of the model cannot hold it)
Backtick == "BACKTICK"

Fence == << Backtick, Backtick, Backtick >>

\* re.sub(r"^[fence](?:tag)?\s*", "", text, flags=re.IGNORECASE)
re_sub_leading_fence(text, tag) ==
    IF ~MatchAt(text, 1, Fence) THEN text
    ELSE LET j == IF MatchAtCI(text, 4, tag) THEN 4 + Len(tag) ELSE 4
         IN  SubSeq(text, SkipWs(text, j), Len(text))

\* re.sub(r"\s*[fence]$", "", text): $ matches at the end of the text and before
\* a newline that ends it; the leftmost match starts the whitespace run
\* that precedes the fence
re_sub_trailing_fence(text) ==
    LET n == Len(text)
        e == IF n >= 1 /\ text[n] = "\n" /\ MatchAt(text, n - 3, Fence) THEN n - 1 ELSE n
    IN  IF ~MatchAt(text, e - 2, Fence) THEN text
        ELSE SubSeq(text, 1, SkipWsBack(text, e - 3)) \o SubSeq(text, e + 1, n)

\* re.sub(r"\s+", " ", text) from position i on
RECURSIVE re_collapse_ws_from(_, _)
re_collapse_ws_from(text, i) ==
    IF i > Len(text) THEN << >>
    ELSE IF text[i] \in Whitespace
         THEN << " " >> \o re_collapse_ws_from(text, SkipWs(text, i))
         ELSE << text[i] >> \o re_collapse_ws_from(text, i + 1)

\* ------------------------------------------------------------------------
\* utils/sparql_cleaner.py
\* ------------------------------------------------------------------------

TagSparql == <<"s","p","a","r","q","l">>

WordQueryColon == <<"q","u","e","r","y",":">>

WordQuery == <<"q","u","e","r","y">>

WordStatement == <<"s","t","a","t","e","m","e","n","t">>

WordThe == <<"t","h","e">>

WordIs == <<"i","s">>

\* re.sub(r"(?i)^sparql\s*query:\s*", "", text)
re_sub_leadin_query(text) ==
    IF ~MatchAtCI(text, 1, TagSparql) THEN text
    ELSE LET j == SkipWs(text, 1 + Len(TagSparql))
         IN  IF ~MatchAtCI(text, j, WordQueryColon) THEN text
             ELSE SubSeq(text, SkipWs(text, j + Len(WordQueryColon)), Len(text))

\* re.sub(r"(?i)^the\s*sparql\s*(query|statement)\s*(is)?:\s*", "", text)
re_sub_leadin_the(text) ==
    IF ~MatchAtCI(text, 1, WordThe) THEN text
    ELSE LET a == SkipWs(text, 1 + Len(WordThe))
         IN  IF ~MatchAtCI(text, a, TagSparql) THEN text
             ELSE LET b == SkipWs(text, a + Len(TagSparql))
                      c == IF MatchAtCI(text, b, WordQuery) THEN b + Len(WordQuery)
                           ELSE IF MatchAtCI(text, b, WordStatement) THEN b + Len(WordStatement)
                           ELSE 0
                      d == SkipWs(text, c)
                      e == IF MatchAtCI(text, d, WordIs) /\ MatchAt(text, d + Len(WordIs), <<":">>)
                           THEN d + Len(WordIs) + 1
                           ELSE IF MatchAt(text, d, <<":">>) THEN d + 1
                           ELSE 0
                  IN  IF c = 0 \/ e = 0 THEN text
                      ELSE SubSeq(text, SkipWs(text, e), Len(text))

\* the alternatives of the start pattern, in the order of the source
StartKeywords == <<
    <<"P","R","E","F","I","X">>,
    <<"S","E","L","E","C","T">>,
    <<"A","S","K">>,
    <<"C","O","N","S","T","R","U","C","T">>,
    <<"D","E","S","C","R","I","B","E">>
  >>

\* r"(?i)(PREFIX|SELECT|ASK|CONSTRUCT|DESCRIBE)\b" matches at position i
StartKeywordAt(text, i) ==
    \E k \in 1..Len(StartKeywords) :
        /\ MatchAtCI(text, i, StartKeywords[k])
        /\ LET after == i + Len(StartKeywords[k])
           IN  after > Len(text) \/ ~IsWordChar(text[after])

\* re.search(pattern, text): match.start() of the leftmost match, 0 for None
re_search_start(text) ==
    IF \E i \in 1..Len(text) : StartKeywordAt(text, i)
    THEN CHOOSE i \in 1..Len(text) :
            StartKeywordAt(text, i) /\ \A j \in 1..(i - 1) : ~StartKeywordAt(text, j)
    ELSE 0

\* the element of a one-element set: { F(x) : x \in {e} } hands e to F as a
\* value, computed once
TheOne(S) == CHOOSE x \in S : TRUE

\* 1. remove markdown fences
remove_fences(text) ==
    TheOne({ re_sub_trailing_fence(t) : t \in { re_sub_leading_fence(text, TagSparql) } })

\* normalize_quotes that only unescapes
normalize_quotes_UnescapeOnly(text) ==
    py_replace(text, <<"\\", "\"">>, <<"\"">>)

\* 2. normalize quotes
normalize_quotes(text) ==
    TheOne({ py_replace(t, <<"\"">>, <<"'">>) : t \in { py_replace(text, <<"\\", "\"">>, <<"\"">>) } })

\* 3. remove common leading phrases
remove_leading_phrases(text) ==
    TheOne({ re_sub_leadin_the(t) : t \in { re_sub_leadin_query(text) } })

\* extract_start that never finds a start
extract_start_NoSearch(text) == text

\* 4. extract the start of the actual SPARQL
extract_start(text) ==
    LET start == re_search_start(text)
    IN  IF start # 0 THEN SubSeq(text, start, Len(text)) ELSE text

\* 5. keep everything until the final "}"
keep_until_final_brace(text) ==
    LET last_brace == py_rfind(text, "}")
    IN  IF last_brace # 0 THEN SubSeq(text, 1, last_brace) ELSE text

\* 6. collapse whitespace
collapse_whitespace(text) ==
    TheOne({ py_strip(t) : t \in { re_collapse_ws_from(text, 1) } })

clean_sparql(raw) ==
    IF raw = << >> THEN << >>
    ELSE TheOne({ collapse_whitespace(t5) : t5 \in
                { keep_until_final_brace(t4) : t4 \in
                { extract_start(t3) : t3 \in
                { remove_leading_phrases(t2) : t2 \in
                { normalize_quotes(t1) : t1 \in
                { remove_fences(t0) : t0 \in
                { py_strip(raw) } } } } } } })

\* keywords = ("SELECT", "ASK", "CONSTRUCT", "DESCRIBE")
ValidationKeywords == <<
    <<"S","E","L","E","C","T">>,
    <<"A","S","K">>,
    <<"C","O","N","S","T","R","U","C","T">>,
    <<"D","E","S","C","R","I","B","E">>
  >>

validate_sparql_structure(sparql) ==
    IF sparql = << >> THEN FALSE
    ELSE \E normalized \in { py_upper_text(sparql) } :
            LET has_keyword ==
                    \/ \E k \in 1..Len(ValidationKeywords) :
                            MatchAt(normalized, 1, ValidationKeywords[k])
                    \/ \E k \in 1..Len(ValidationKeywords) :
                            py_in(<<" ">> \o ValidationKeywords[k] \o <<" ">>, normalized)
                has_braces == py_in(<<"{">>, sparql) /\ py_in(<<"}">>, sparql)
            IN  has_keyword /\ has_braces

\* ------------------------------------------------------------------------
\* generation/generate_sparql.py: the review verdict
\* ------------------------------------------------------------------------

WordYES == <<"Y","E","S">>

\* _parse_yes_no that does not trim the reply
_parse_yes_no_NoStrip(raw) ==
    IF raw = << >> THEN FALSE
    ELSE MatchAt(py_upper_text(raw), 1, WordYES)

\* _parse_yes_no: the verdict of a review reply
_parse_yes_no(raw) ==
    IF raw = << >> THEN FALSE
    ELSE \E normalized \in { py_upper_text(py_strip(raw)) } :
            MatchAt(normalized, 1, WordYES)

\* ------------------------------------------------------------------------
\* generation/planner.py: decoding a plan
\* ------------------------------------------------------------------------

TagJson == <<"j","s","o","n">>

\* clean_json that does not cut the payload from the first to the last brace
clean_json_NoSlice(text) ==
    IF text = << >> THEN << >>
    ELSE re_sub_trailing_fence(re_sub_leading_fence(py_strip(text), TagJson))

\* clean_json: strip code fences and keep the JSON payload
clean_json(text) ==
    IF text = << >> THEN << >>
    ELSE TheOne({ LET first_brace == py_find(cleaned, "{")
                      last_brace  == py_rfind(cleaned, "}")
                  IN  IF first_brace # 0 /\ last_brace # 0 /\ first_brace < last_brace
                      THEN SubSeq(cleaned, first_brace, last_brace)
                      ELSE cleaned
                : cleaned \in
                { re_sub_trailing_fence(t1) : t1 \in
                { re_sub_leading_fence(t0, TagJson) : t0 \in
                { py_strip(text) } } } })

\* decoded JSON values: t is the Python type, v the value
JNone == [t |-> "NoneType", v |-> << >>]

JInt(n) == [t |-> "int", v |-> n]

JStr(s) == [t |-> "str", v |-> s]

JList(items) == [t |-> "list", v |-> items]

JDict(members) == [t |-> "dict", v |-> members]

JBool(b) == [t |-> "bool", v |-> b]

\* a JSON object of the shape the planner asks for: two entity records with
\* a number between them, one relation record, a step of text and a step
\* that is a number
PlanJson == <<"{","\"","e","n","t","i","t","i","e","s","\"",":","[","{","\"","t","\"",":","\"","A","\"","}",",","7",",","{","\"","t","\"",":","\"","B","\"","}","]",",","\"","r","e","l","a","t","i","o","n","s","\"",":","[","{","\"","t","\"",":","\"","R","\"","}","]",",","\"","c","h","a","i","n","_","o","f","_","t","h","o","u","g","h","t","\"",":","[","\"","s","\"",",","2","]","}">>

\* the payloads json.loads decodes, each with its value; it raises
\* JSONDecodeError on every other payload
JsonDocuments == <<
    [payload |-> <<"{","\"","e","n","t","i","t","i","e","s","\"",":","[","{","\"","t","e","x","t","\"",":","\"","P","\"","}",",","1","]",",","\"","p","l","a","n","\"",":","[","\"","s","\"",",","2","]","}">>,
     value   |-> JDict([entities |-> JList(<< JDict([text |-> JStr("P")]), JInt(1) >>),
                        plan     |-> JList(<< JStr("s"), JInt(2) >>)])],
    [payload |-> <<"{","}">>,
     value   |-> JDict(<< >>)],
    [payload |-> <<"{","\"","e","n","t","i","t","i","e","s","\"",":","\"","x","\"","}">>,
     value   |-> JDict([entities |-> JStr("x")])],
    [payload |-> <<"[","]">>,
     value   |-> JList(<< >>)],
    [payload |-> PlanJson,
     value   |-> JDict([entities |-> JList(<< JDict([t |-> JStr("A")]), JInt(7),
                                              JDict([t |-> JStr("B")]) >>),
                        relations |-> JList(<< JDict([t |-> JStr("R")]) >>),
                        chain_of_thought |-> JList(<< JStr("s"), JInt(2) >>)])],
    [payload |-> <<"{","\"","e","n","t","i","t","i","e","s","\"",":","\"","\"","}">>,
     value   |-> JDict([entities |-> JStr("")])],
    [payload |-> <<"{","\"","e","n","t","i","t","i","e","s","\"",":","0","}">>,
     value   |-> JDict([entities |-> JInt(0)])],
    [payload |-> <<"{","\"","r","e","l","a","t","i","o","n","s","\"",":","n","u","l","l","}">>,
     value   |-> JDict([relations |-> JNone])],
    [payload |-> <<"{","\"","r","e","l","a","t","i","o","n","s","\"",":","{","}","}">>,
     value   |-> JDict([relations |-> JDict(<< >>)])],
    [payload |-> <<"{","\"","c","h","a","i","n","_","o","f","_","t","h","o","u","g","h","t","\"",":","f","a","l","s","e","}">>,
     value   |-> JDict([chain_of_thought |-> JBool(FALSE)])]
  >>

\* json.loads(payload): the decoded value, or JSONDecodeError
json_loads(payload) ==
    IF \E i \in 1..Len(JsonDocuments) : JsonDocuments[i].payload = payload
    THEN [ok |-> TRUE,
          value |-> JsonDocuments[CHOOSE i \in 1..Len(JsonDocuments) :
                                    JsonDocuments[i].payload = payload].value]
    ELSE [ok |-> FALSE, value |-> JNone]

\* the truth value Python gives a decoded value
Truthy(j) ==
    CASE j.t = "NoneType" -> FALSE
      [] j.t = "int"      -> j.v # 0
      [] j.t = "str"      -> j.v # ""
      [] j.t = "list"     -> j.v # << >>
      [] j.t = "dict"     -> DOMAIN j.v # {}
      [] j.t = "bool"     -> j.v
      [] OTHER            -> TRUE

\* data.get(key)
dict_get(data, key) == IF key \in DOMAIN data.v THEN data.v[key] ELSE JNone

\* x or y
py_or(x, y) == IF Truthy(x) THEN x ELSE y

\* str(step)
DecimalText == <<"1","2","3","4","5","6","7","8","9">>

py_str(j) ==
    CASE j.t = "str" -> j.v
      [] j.t = "int" /\ j.v \in 1..9 -> DecimalText[j.v]
      [] j.t = "int" /\ j.v = 0 -> "0"
      [] j.t = "NoneType" -> "None"
      [] j.t = "bool" -> IF j.v THEN "True" ELSE "False"
      [] OTHER -> "repr"

\* the items of a list that are dicts, in order
RECURSIVE only_dicts(_)
only_dicts(items) ==
    IF items = << >> THEN << >>
    ELSE IF Head(items).t = "dict"
         THEN << Head(items).v >> \o only_dicts(Tail(items))
         ELSE only_dicts(Tail(items))

\* PlannerOutput(): every field defaults to the empty list
PlannerOutput == [entities |-> << >>, relations |-> << >>, chain_of_thought |-> << >>]

\* what parse_plan gives: a PlannerOutput, None, or the AttributeError of
\* data.get on a decoded value that is no dict
ParsedPlan(plan) == [kind |-> "plan", plan |-> plan]

ParsedNone == [kind |-> "None", plan |-> PlannerOutput]

ParseRaises == [kind |-> "raise", plan |-> PlannerOutput]

parse_plan(raw_response) ==
    LET payload == clean_json(raw_response)
    IN  IF payload = << >> THEN ParsedNone
        ELSE LET decoded == json_loads(payload)
                 data    == decoded.value
             IN  IF ~decoded.ok THEN ParsedNone
                 ELSE IF data.t # "dict" THEN ParseRaises
                 ELSE LET entities  == py_or(dict_get(data, "entities"), JList(<< >>))
                          relations == py_or(dict_get(data, "relations"), JList(<< >>))
                          thought   == py_or(dict_get(data, "chain_of_thought"),
                                             py_or(dict_get(data, "plan"), JList(<< >>)))
                      IN  IF entities.t # "list" \/ relations.t # "list" \/ thought.t # "list"
                          THEN ParsedNone
                          ELSE ParsedPlan([entities  |-> only_dicts(entities.v),
                                           relations |-> only_dicts(relations.v),
                                           chain_of_thought |->
                                               [i \in 1..Len(thought.v) |-> py_str(thought.v[i])]])

\* ------------------------------------------------------------------------
\* State
\* ------------------------------------------------------------------------

VARIABLES
    retries,     \* the retry budget handed to the planner or to the loop
    oracle,      \* the outcomes of the capability so far: oracle[k] answers the k-th call of a run
    gen_sync,    \* the run of _generate_with_retries
    gen_async,   \* the run of _generate_with_retries_async
    plan_sync,   \* the run of plan_question_sync
    plan_async,  \* the run of plan_question_async
    batch,       \* the run of _generate_entries
    cleaner,     \* one text handed to the functions of utils/sparql_cleaner.py
    handler      \* one request handled by the /generate handler of main.py

vars == << retries, oracle, gen_sync, gen_async, plan_sync, plan_async, batch, cleaner, handler >>

\* the largest retry budget explored
MaxRetries == 2

\* how a run ended
NoResult == [kind |-> "none", value |-> << >>]

Returned(value) == [kind |-> "return", value |-> value]

Raised == [kind |-> "raise", value |-> << >>]

\* ------------------------------------------------------------------------
\* models/model_router.py: the capability, as seen by its callers
\* ------------------------------------------------------------------------

\* a YES verdict in lower case
ReplyYes == <<"y","e","s",".">>

\* a NO verdict that goes on with a query, a quoted literal and a comment
ReplyNo == <<"N","o","."," ","A","S","K"," ","{","\"","a","\"","}"," ","o","k">>

\* an empty completion
ReplyEmpty == << >>

\* the replies the backend gives to the prompts of the loop: each can answer
\* the initial, a review or a correction prompt
GenReplies == { ReplyYes, ReplyNo, ReplyEmpty }

\* one call either raises or returns the reply text
CallRaises == [exc |-> TRUE, text |-> << >>]

CallReturns(text) == [exc |-> FALSE, text |-> text]

GenOutcomes == { CallRaises } \cup { CallReturns(r) : r \in GenReplies }

\* ModelRouter.generate / generate_sync answer the k-th call of a run with
\* outcome o; the blocking and the asynchronous run are given the same outcomes
generate(k, o) ==
    IF k <= Len(oracle)
    THEN o = oracle[k] /\ oracle' = oracle
    ELSE oracle' = Append(oracle, o)

\* ------------------------------------------------------------------------
\* generation/generate_sparql.py: the generation loop
\* ------------------------------------------------------------------------

GenStart == [pc |-> "initial", attempt |-> 0, current_sparql |-> << >>,
             calls |-> << >>, result |-> NoResult]

GenOff == [GenStart EXCEPT !.pc = "off"]

\* the prompt of a call: its kind and the candidate it embeds
Prompt(kind, sparql) == [kind |-> kind, sparql |-> sparql]

\* _review_query: the verdict on a reply
_review_query(o) == _parse_yes_no(o.text)

\* _correct_query that returns the reply as the backend gave it
_correct_query_Raw(o) == o.text

\* _correct_query: the cleaned corrected query
_correct_query(o) == clean_sparql(o.text)

\* ForAttemptNext with the range one attempt too long
ForAttemptNext_OneMore(g, sparql) ==
    IF g.attempt + 1 <= retries
    THEN [g EXCEPT !.pc = "review", !.attempt = g.attempt + 1, !.current_sparql = sparql]
    ELSE [g EXCEPT !.pc = "done", !.attempt = g.attempt + 1, !.current_sparql = sparql,
                   !.result = Returned(sparql)]

\* "for attempt in range(retries)": the next iteration with candidate sparql,
\* or "return current_sparql" when the range is used up
ForAttemptNext(g, sparql) ==
    IF g.attempt + 1 < retries
    THEN [g EXCEPT !.pc = "review", !.attempt = g.attempt + 1, !.current_sparql = sparql]
    ELSE [g EXCEPT !.pc = "done", !.attempt = g.attempt + 1, !.current_sparql = sparql,
                   !.result = Returned(sparql)]

\* "except Exception" of the loop body: "if attempt < retries" a correction
\* is requested inside the handler
ExceptHandler(g) ==
    IF g.attempt < retries
    THEN [g EXCEPT !.pc = "handler_correct"]
    ELSE ForAttemptNext(g, g.current_sparql)

\* sync_initial whose except block does not return
sync_initial_NoReturn(g, o) ==
    LET called == [g EXCEPT !.calls = Append(@, Prompt("initial", << >>))]
        sparql == IF o.exc THEN << >> ELSE clean_sparql(o.text)
    IN  IF 0 < retries
        THEN [called EXCEPT !.pc = "review", !.current_sparql = sparql]
        ELSE [called EXCEPT !.pc = "done", !.current_sparql = sparql,
                            !.result = Returned(sparql)]

\* _generate_with_retries: the initial call
sync_initial(g, o) ==
    LET called == [g EXCEPT !.calls = Append(@, Prompt("initial", << >>))]
    IN  IF o.exc
        THEN [called EXCEPT !.pc = "done", !.result = Returned(<< >>)]
        ELSE LET sparql == clean_sparql(o.text)
             IN  IF 0 < retries
                 THEN [called EXCEPT !.pc = "review", !.current_sparql = sparql]
                 ELSE [called EXCEPT !.pc = "done", !.current_sparql = sparql,
                                     !.result = Returned(sparql)]

\* sync_review that goes on to the correction after a YES
sync_review_NoReturn(g, o) ==
    LET called == [g EXCEPT !.calls = Append(@, Prompt("review", g.current_sparql))]
    IN  IF o.exc THEN ExceptHandler(called)
        ELSE [called EXCEPT !.pc = "correct"]

\* _generate_with_retries: the review call of an attempt
sync_review(g, o) ==
    LET called == [g EXCEPT !.calls = Append(@, Prompt("review", g.current_sparql))]
    IN  IF o.exc THEN ExceptHandler(called)
        ELSE IF _review_query(o)
             THEN [called EXCEPT !.pc = "done", !.result = Returned(g.current_sparql)]
             ELSE [called EXCEPT !.pc = "correct"]

\* _generate_with_retries: the correction call inside the try block
sync_correct(g, o) ==
    LET called == [g EXCEPT !.calls = Append(@, Prompt("correct", g.current_sparql))]
    IN  IF o.exc THEN ExceptHandler(called)
        ELSE ForAttemptNext(called, _correct_query(o))

\* _generate_with_retries: the correction call inside the except block;
\* nothing catches what it raises
sync_handler_correct(g, o) ==
    LET called == [g EXCEPT !.calls = Append(@, Prompt("correct", g.current_sparql))]
    IN  IF o.exc
        THEN [called EXCEPT !.pc = "done", !.result = Raised]
        ELSE ForAttemptNext(called, _correct_query(o))

GenSyncInitial ==
    /\ gen_sync.pc = "initial"
    /\ \E o \in GenOutcomes :
        /\ generate(Len(gen_sync.calls) + 1, o)
        /\ gen_sync' = sync_initial(gen_sync, o)
    /\ UNCHANGED << retries, gen_async, plan_sync, plan_async, batch, cleaner, handler >>

GenSyncReview ==
    /\ gen_sync.pc = "review"
    /\ \E o \in GenOutcomes :
        /\ generate(Len(gen_sync.calls) + 1, o)
        /\ gen_sync' = sync_review(gen_sync, o)
    /\ UNCHANGED << retries, gen_async, plan_sync, plan_async, batch, cleaner, handler >>

GenSyncCorrect ==
    /\ gen_sync.pc = "correct"
    /\ \E o \in GenOutcomes :
        /\ generate(Len(gen_sync.calls) + 1, o)
        /\ gen_sync' = sync_correct(gen_sync, o)
    /\ UNCHANGED << retries, gen_async, plan_sync, plan_async, batch, cleaner, handler >>

GenSyncHandlerCorrect ==
    /\ gen_sync.pc = "handler_correct"
    /\ \E o \in GenOutcomes :
        /\ generate(Len(gen_sync.calls) + 1, o)
        /\ gen_sync' = sync_handler_correct(gen_sync, o)
    /\ UNCHANGED << retries, gen_async, plan_sync, plan_async, batch, cleaner, handler >>

\* _generate_with_retries_async: the initial call
async_initial(g, o) ==
    LET called == [g EXCEPT !.calls = Append(@, Prompt("initial", << >>))]
    IN  IF o.exc
        THEN [called EXCEPT !.pc = "done", !.result = Returned(<< >>)]
        ELSE LET sparql == clean_sparql(o.text)
             IN  IF 0 < retries
                 THEN [called EXCEPT !.pc = "review", !.current_sparql = sparql]
                 ELSE [called EXCEPT !.pc = "done", !.current_sparql = sparql,
                                     !.result = Returned(sparql)]

\* _generate_with_retries_async: the review call of an attempt
async_review(g, o) ==
    LET called == [g EXCEPT !.calls = Append(@, Prompt("review", g.current_sparql))]
    IN  IF o.exc THEN ExceptHandler(called)
        ELSE IF _review_query(o)
             THEN [called EXCEPT !.pc = "done", !.result = Returned(g.current_sparql)]
             ELSE [called EXCEPT !.pc = "correct"]

\* _generate_with_retries_async: the correction call inside the try block
async_correct(g, o) ==
    LET called == [g EXCEPT !.calls = Append(@, Prompt("correct", g.current_sparql))]
    IN  IF o.exc THEN ExceptHandler(called)
        ELSE ForAttemptNext(called, _correct_query(o))

\* async_handler_correct with the correction of the except block guarded: what
\* it raises is swallowed and the candidate kept
async_handler_correct_Guarded(g, o) ==
    LET called == [g EXCEPT !.calls = Append(@, Prompt("correct", g.current_sparql))]
    IN  IF o.exc
        THEN ForAttemptNext(called, g.current_sparql)
        ELSE ForAttemptNext(called, _correct_query(o))

\* _generate_with_retries_async: the correction call inside the except block
async_handler_correct(g, o) ==
    LET called == [g EXCEPT !.calls = Append(@, Prompt("correct", g.current_sparql))]
    IN  IF o.exc
        THEN [called EXCEPT !.pc = "done", !.result = Raised]
        ELSE ForAttemptNext(called, _correct_query(o))

\* the asynchronous run is driven once the blocking run has ended, against
\* the outcomes the blocking run was given
GenAsyncInitial ==
    /\ gen_sync.pc = "done"
    /\ gen_async.pc = "initial"
    /\ \E o \in GenOutcomes :
        /\ generate(Len(gen_async.calls) + 1, o)
        /\ gen_async' = async_initial(gen_async, o)
    /\ UNCHANGED << retries, gen_sync, plan_sync, plan_async, batch, cleaner, handler >>

GenAsyncReview ==
    /\ gen_sync.pc = "done"
    /\ gen_async.pc = "review"
    /\ \E o \in GenOutcomes :
        /\ generate(Len(gen_async.calls) + 1, o)
        /\ gen_async' = async_review(gen_async, o)
    /\ UNCHANGED << retries, gen_sync, plan_sync, plan_async, batch, cleaner, handler >>

GenAsyncCorrect ==
    /\ gen_sync.pc = "done"
    /\ gen_async.pc = "correct"
    /\ \E o \in GenOutcomes :
        /\ generate(Len(gen_async.calls) + 1, o)
        /\ gen_async' = async_correct(gen_async, o)
    /\ UNCHANGED << retries, gen_sync, plan_sync, plan_async, batch, cleaner, handler >>

GenAsyncHandlerCorrect ==
    /\ gen_sync.pc = "done"
    /\ gen_async.pc = "handler_correct"
    /\ \E o \in GenOutcomes :
        /\ generate(Len(gen_async.calls) + 1, o)
        /\ gen_async' = async_handler_correct(gen_async, o)
    /\ UNCHANGED << retries, gen_sync, plan_sync, plan_async, batch, cleaner, handler >>

\* ------------------------------------------------------------------------
\* generation/planner.py: the planner
\* ------------------------------------------------------------------------

\* the largest retry budget of the planner explored
MaxPlanRetries == 3

PlanReplyProse == <<"S","u","r","e","!"," ","{","\"","e","n","t","i","t","i","e","s","\"",":","[","{","\"","t","e","x","t","\"",":","\"","P","\"","}",",","1","]",",","\"","p","l","a","n","\"",":","[","\"","s","\"",",","2","]","}"," ","o","k">>

PlanReplyEmptyObject == <<"{","}">>

PlanReplyWrongShape == <<"{","\"","e","n","t","i","t","i","e","s","\"",":","\"","x","\"","}">>

PlanReplyNotObject == <<"[","]">>

PlanReplyTruncated == <<"{","\"","e","n","t","i","t","i","e","s","\"",":","[">>

PlanReplyNothing == << >>

\* the object alone, the object inside prose, the object inside a code fence
PlanReplyBare == PlanJson

PlanReplyWrapped == <<"H","e","r","e",":"," ">> \o PlanJson \o <<" ","d","o","n","e">>

PlanReplyFenced == <<Backtick,Backtick,Backtick,"j","s","o","n","\n">> \o PlanJson \o <<"\n",Backtick,Backtick,Backtick>>

\* objects whose field holds a value that is no list and that Python takes
\* as false: "", 0, null, {}, false
PlanReplyEmptyText == <<"{","\"","e","n","t","i","t","i","e","s","\"",":","\"","\"","}">>

PlanReplyZero == <<"{","\"","e","n","t","i","t","i","e","s","\"",":","0","}">>

PlanReplyNull == <<"{","\"","r","e","l","a","t","i","o","n","s","\"",":","n","u","l","l","}">>

PlanReplyEmptyRecord == <<"{","\"","r","e","l","a","t","i","o","n","s","\"",":","{","}","}">>

PlanReplyFalse == <<"{","\"","c","h","a","i","n","_","o","f","_","t","h","o","u","g","h","t","\"",":","f","a","l","s","e","}">>

\* the replies the backend gives to the planning prompt
PlanReplies == { PlanReplyProse, PlanReplyEmptyObject, PlanReplyWrongShape,
                 PlanReplyNotObject, PlanReplyTruncated, PlanReplyNothing,
                 PlanReplyBare, PlanReplyWrapped, PlanReplyFenced,
                 PlanReplyEmptyText, PlanReplyZero, PlanReplyNull,
                 PlanReplyEmptyRecord, PlanReplyFalse }

PlanOutcomes == { CallRaises } \cup { CallReturns(r) : r \in PlanReplies }

\* Optional[PlannerOutput]; a PlannerOutput is a dataclass, true whatever it holds
NonePlan == [some |-> FALSE, value |-> PlannerOutput]

SomePlan(plan) == [some |-> TRUE, value |-> plan]

PlanStart == [pc |-> "loop", attempt |-> 0, plan |-> NonePlan, calls |-> << >>,
              result |-> [kind |-> "none", value |-> NonePlan]]

PlanOff == [PlanStart EXCEPT !.pc = "off"]

\* plan_sync_attempt whose except clause misses the error of parse_plan
plan_sync_attempt_NarrowExcept(p, o) ==
    LET called == [p EXCEPT !.calls = Append(@, Prompt("plan", << >>)),
                            !.attempt = p.attempt + 1]
    IN  IF o.exc THEN called
        ELSE LET parsed == parse_plan(o.text)
             IN  IF parsed.kind = "raise"
                 THEN [called EXCEPT !.pc = "done",
                                     !.result = [kind |-> "raise", value |-> NonePlan]]
                 ELSE IF parsed.kind = "plan"
                      THEN [called EXCEPT !.plan = SomePlan(parsed.plan), !.pc = "return"]
                      ELSE [called EXCEPT !.plan = NonePlan]

\* plan_sync_attempt without the break
plan_sync_attempt_NoBreak(p, o) ==
    LET called == [p EXCEPT !.calls = Append(@, Prompt("plan", << >>)),
                            !.attempt = p.attempt + 1]
    IN  IF o.exc THEN called
        ELSE LET parsed == parse_plan(o.text)
             IN  IF parsed.kind = "raise" THEN called
                 ELSE IF parsed.kind = "plan"
                      THEN [called EXCEPT !.plan = SomePlan(parsed.plan)]
                      ELSE [called EXCEPT !.plan = NonePlan]

\* plan_question_sync: one attempt of "for attempt in range(retries)"
plan_sync_attempt(p, o) ==
    LET called == [p EXCEPT !.calls = Append(@, Prompt("plan", << >>)),
                            !.attempt = p.attempt + 1]
    IN  IF o.exc THEN called
        ELSE LET parsed == parse_plan(o.text)
             IN  IF parsed.kind = "raise" THEN called
                 ELSE IF parsed.kind = "plan"
                      THEN [called EXCEPT !.plan = SomePlan(parsed.plan), !.pc = "return"]
                      ELSE [called EXCEPT !.plan = NonePlan]

\* plan_sync_return as "return plan"
plan_sync_return_NoDefault(p) ==
    [p EXCEPT !.pc = "done", !.result = [kind |-> "return", value |-> p.plan]]

\* plan_question_sync: "return plan or PlannerOutput()"
plan_sync_return(p) ==
    [p EXCEPT !.pc = "done",
              !.result = [kind |-> "return",
                          value |-> IF p.plan.some THEN p.plan ELSE SomePlan(PlannerOutput)]]

PlanSyncAttempt ==
    /\ plan_sync.pc = "loop"
    /\ plan_sync.attempt < retries
    /\ \E o \in PlanOutcomes :
        /\ generate(Len(plan_sync.calls) + 1, o)
        /\ plan_sync' = plan_sync_attempt(plan_sync, o)
    /\ UNCHANGED << retries, gen_sync, gen_async, plan_async, batch, cleaner, handler >>

PlanSyncReturn ==
    /\ \/ plan_sync.pc = "return"
       \/ plan_sync.pc = "loop" /\ plan_sync.attempt >= retries
    /\ plan_sync' = plan_sync_return(plan_sync)
    /\ UNCHANGED << retries, oracle, gen_sync, gen_async, plan_async, batch, cleaner, handler >>

\* plan_async_attempt without the break
plan_async_attempt_NoBreak(p, o) ==
    LET called == [p EXCEPT !.calls = Append(@, Prompt("plan", << >>)),
                            !.attempt = p.attempt + 1]
    IN  IF o.exc THEN called
        ELSE LET parsed == parse_plan(o.text)
             IN  IF parsed.kind = "raise" THEN called
                 ELSE IF parsed.kind = "plan"
                      THEN [called EXCEPT !.plan = SomePlan(parsed.plan)]
                      ELSE [called EXCEPT !.plan = NonePlan]

\* plan_question_async: one attempt of "for attempt in range(retries)"
plan_async_attempt(p, o) ==
    LET called == [p EXCEPT !.calls = Append(@, Prompt("plan", << >>)),
                            !.attempt = p.attempt + 1]
    IN  IF o.exc THEN called
        ELSE LET parsed == parse_plan(o.text)
             IN  IF parsed.kind = "raise" THEN called
                 ELSE IF parsed.kind = "plan"
                      THEN [called EXCEPT !.plan = SomePlan(parsed.plan), !.pc = "return"]
                      ELSE [called EXCEPT !.plan = NonePlan]

\* plan_question_async: "return plan or PlannerOutput()"
plan_async_return(p) ==
    [p EXCEPT !.pc = "done",
              !.result = [kind |-> "return",
                          value |-> IF p.plan.some THEN p.plan ELSE SomePlan(PlannerOutput)]]

\* the asynchronous planner is driven once the blocking one has returned,
\* against the outcomes the blocking one was given
PlanAsyncAttempt ==
    /\ plan_sync.pc = "done"
    /\ plan_async.pc = "loop"
    /\ plan_async.attempt < retries
    /\ \E o \in PlanOutcomes :
        /\ generate(Len(plan_async.calls) + 1, o)
        /\ plan_async' = plan_async_attempt(plan_async, o)
    /\ UNCHANGED << retries, gen_sync, gen_async, plan_sync, batch, cleaner, handler >>

PlanAsyncReturn ==
    /\ plan_sync.pc = "done"
    /\ \/ plan_async.pc = "return"
       \/ plan_async.pc = "loop" /\ plan_async.attempt >= retries
    /\ plan_async' = plan_async_return(plan_async)
    /\ UNCHANGED << retries, oracle, gen_sync, gen_async, plan_sync, batch, cleaner, handler >>

\* ------------------------------------------------------------------------
\* models/providers/openai_client.py: the reply of the backend
\* ------------------------------------------------------------------------

\* OpenAIClient.generate: "response.choices[0].message.content.strip()"
OpenAIClient_generate(content) == py_strip(content)

\* ModelRouter.generate / generate_sync hand back what the client returns
ModelRouter_generate(content) == OpenAIClient_generate(content)

\* ------------------------------------------------------------------------
\* One text through the normalizer, the validator and the provider client
\* ------------------------------------------------------------------------

\* the most applications of clean_sparql in a row
MaxPasses == 2

\* nothing before the body
PreNone == <<>>

\* an opening code fence with its tag
PreFence == <<Backtick,Backtick,Backtick,"s","p","a","r","q","l","\n">>

\* two opening code fences
PreRepeatedFence == <<Backtick,Backtick,Backtick," ",Backtick,Backtick,Backtick>>

\* a lead-in phrase
PreLeadIn == <<"T","h","e"," ","S","P","A","R","Q","L"," ","q","u","e","r","y"," ","i","s",":"," ">>

\* a lead-in phrase, twice
PreRepeatedLeadIn == <<"s","p","a","r","q","l"," ","q","u","e","r","y",":"," ","s","p","a","r","q","l"," ","q","u","e","r","y",":"," ">>

\* an opening code fence and a word of prose
PreFenceProse == <<Backtick,Backtick,Backtick,"s","p","a","r","q","l","\n","S","u","r","e",":"," ">>

\* prose with the letters of a start keyword inside a word
PreTask == <<"T","a","s","k",":"," ">>

\* blank space
PreBlank == <<" ","\n">>

Leadings == { PreNone, PreFence, PreRepeatedFence, PreLeadIn, PreRepeatedLeadIn, PreFenceProse, PreTask, PreBlank }

\* a query
BodyQuery == <<"A","S","K"," ","{","'","a","'","}">>

\* a query in lower case
BodyLowerQuery == <<"s","e","l","e","c","t"," ","?","x"," ","{","}">>

\* a query with escaped double quotes
BodyEscapedQuotes == <<"A","S","K"," ","{","\\","\"","a","\\","\"","}">>

\* prose with double quotes, no start keyword, no brace
BodyQuotedProse == <<"x"," ","\"","y","\"">>

\* a query whose keyword stands on a line of its own
BodyKeywordLine == <<"x","\n","S","E","L","E","C","T","\n","{"," ","}">>

\* nothing
BodyEmpty == <<>>

\* a word that starts with the letters of a keyword
BodySelected == <<"S","E","L","E","C","T","E","D"," ","{","}">>

\* no start keyword, a closing brace
BodyBraceOnly == <<"x"," ","}">>

\* a start keyword, no brace
BodyKeywordOnly == <<"A","S","K"," ","x">>

\* a review reply that starts with yes in mixed case
BodyYes == <<"y","E","s",".">>

\* a review reply that holds yes after its start
BodyNoYes == <<"n","o"," ","y","e","s">>

\* a review reply that stops short of yes
BodyYe == <<"Y","e">>

Bodies == { BodyQuery, BodyLowerQuery, BodyEscapedQuotes, BodyQuotedProse, BodyKeywordLine, BodyEmpty, BodySelected, BodyBraceOnly, BodyKeywordOnly,
            BodyYes, BodyNoYes, BodyYe }

\* nothing after the body
PostNone == <<>>

\* a closing code fence
PostFence == <<"\n",Backtick,Backtick,Backtick>>

\* a closing code fence and a comment
PostFenceComment == <<"\n",Backtick,Backtick,Backtick," ","o","k">>

\* blank space
PostBlank == <<" ","\n">>

Trailings == { PostNone, PostFence, PostFenceComment, PostBlank }

\* a text made of a leading part, a body and a trailing part; nothing has
\* been applied to it yet
CleanerStart(leading, body, trailing) ==
    [pc |-> "input", leading |-> leading, body |-> body, trailing |-> trailing,
     raw |-> leading \o body \o trailing,
     passes |-> 0, previous |-> << >>, cleaned |-> << >>,
     valid |-> FALSE, reply |-> << >>, yes |-> FALSE]

CleanerOff == [CleanerStart(<< >>, << >>, << >>) EXCEPT !.pc = "off"]

\* clean_sparql applied to the text, then to its own output
CleanSparql ==
    /\ cleaner.pc \in { "input", "cleaned" }
    /\ cleaner.passes < MaxPasses
    /\ \E arg \in { IF cleaner.passes = 0 THEN cleaner.raw ELSE cleaner.cleaned } :
          cleaner' = [cleaner EXCEPT !.pc = "cleaned",
                                     !.passes = cleaner.passes + 1,
                                     !.previous = arg,
                                     !.cleaned = clean_sparql(arg)]
    /\ UNCHANGED << retries, oracle, gen_sync, gen_async, plan_sync, plan_async, batch, handler >>

\* validate_sparql_structure applied to the text
ValidateSparqlStructure ==
    /\ cleaner.pc = "input"
    /\ cleaner' = [cleaner EXCEPT !.pc = "validated",
                                 !.valid = validate_sparql_structure(cleaner.raw)]
    /\ UNCHANGED << retries, oracle, gen_sync, gen_async, plan_sync, plan_async, batch, handler >>

\* _parse_yes_no applied to the text
ParseYesNo ==
    /\ cleaner.pc = "input"
    /\ cleaner' = [cleaner EXCEPT !.pc = "judged",
                                 !.yes = _parse_yes_no(cleaner.raw)]
    /\ UNCHANGED << retries, oracle, gen_sync, gen_async, plan_sync, plan_async, batch, handler >>

\* the backend replies with the text and the capability returns
RouterGenerate ==
    /\ cleaner.pc = "input"
    /\ cleaner' = [cleaner EXCEPT !.pc = "replied",
                                 !.reply = ModelRouter_generate(cleaner.raw)]
    /\ UNCHANGED << retries, oracle, gen_sync, gen_async, plan_sync, plan_async, batch, handler >>

\* ------------------------------------------------------------------------
\* models/model_router.py, models/providers: constructing the capability
\* ------------------------------------------------------------------------

\* a value of os.getenv: None when the variable is unset
EnvUnset == [set |-> FALSE, value |-> << >>]

EnvValue(value) == [set |-> TRUE, value |-> value]

\* the providers of ModelRouter.__init__, each with the environment variable
\* its client reads the API key from
ProviderClients == <<
    [name |-> <<"o","p","e","n","a","i">>,                 key |-> "OPENAI_API_KEY"],
    [name |-> <<"d","e","e","p","s","e","e","k">>,         key |-> "DEEPSEEK_API_KEY"],
    [name |-> <<"g","e","m","i","n","i">>,                 key |-> "GEMINI_API_KEY"],
    [name |-> <<"o","p","e","n","r","o","u","t","e","r">>, key |-> "OPENROUTER_API_KEY"]
  >>

\* how a constructor ends
Constructed == "constructed"

UnsupportedProvider == "ValueError: Unsupported provider"

ApiKeyNotSet == "ValueError: API key not set"

\* the constructor of a provider client: "if not api_key: raise ValueError"
Client__init__(key, env) ==
    LET api_key == env[key]
    IN  IF ~api_key.set \/ api_key.value = << >> THEN ApiKeyNotSet ELSE Constructed

\* ModelRouter__init__ whose clients read the API key at the first call
ModelRouter__init___LazyKey(provider, env) ==
    IF \E i \in 1..Len(ProviderClients) : ProviderClients[i].name = py_lower_text(provider)
    THEN Constructed
    ELSE UnsupportedProvider

\* ModelRouter.__init__
ModelRouter__init__(provider, env) ==
    LET name == py_lower_text(provider)
    IN  IF ~\E i \in 1..Len(ProviderClients) : ProviderClients[i].name = name
        THEN UnsupportedProvider
        ELSE Client__init__(
                 ProviderClients[CHOOSE i \in 1..Len(ProviderClients) :
                                    ProviderClients[i].name = name].key,
                 env)

\* ------------------------------------------------------------------------
\* generation/generate_sparql.py, prompts/prompt_builder.py: building prompts
\* ------------------------------------------------------------------------

NameZeroShot == <<"z","e","r","o","_","s","h","o","t">>

NameChainOfThought == <<"c","h","a","i","n","_","o","f","_","t","h","o","u","g","h","t">>

\* a prompt pair: the system prompt by the name of its template, the user
\* prompt by the planner context it embeds
NoPrompts == [system |-> "", user |-> NonePlan]

\* prompt_builder.zero_shot
zero_shot == [system |-> "ZERO_SHOT_SYSTEM_PROMPT", user |-> NonePlan]

\* prompt_builder.chain_of_thought: "plan = plan or PlannerOutput()"
chain_of_thought(plan) ==
    [system |-> "CHAIN_OF_THOUGHT_SYSTEM_PROMPT",
     user   |-> IF plan.some THEN plan ELSE SomePlan(PlannerOutput)]

UnsupportedTechnique == "ValueError: Unsupported prompting technique"

\* _build_prompts: the prompt pair, or ValueError for every other technique
_build_prompts(technique, plan) ==
    LET lowered == py_lower_text(technique)
    IN  IF lowered = NameZeroShot
        THEN [raises |-> FALSE, prompts |-> zero_shot]
        ELSE IF lowered = NameChainOfThought
        THEN [raises |-> FALSE, prompts |-> chain_of_thought(plan)]
        ELSE [raises |-> TRUE, prompts |-> NoPrompts]

\* ------------------------------------------------------------------------
\* generation/generate_sparql.py: batch mode
\* ------------------------------------------------------------------------

\* the number of dataset entries of a batch
NumEntries == 2

\* retries=3 of the call of _generate_with_retries
BatchLoopRetries == 3

\* the default of the parameter retries of plan_question_sync
PlannerDefaultRetries == 1

\* the techniques a batch is started with
Techniques == {
    <<"Z","e","r","o","_","S","h","o","t">>,
    <<"C","h","a","i","n","_","O","f","_","T","h","o","u","g","h","t">>,
    <<"g","r","a","p","h","_","o","f","_","t","h","o","u","g","h","t">>,
    <<"D","y","n","a","m","i","c">>,
    <<"t","r","e","e","_","o","f","_","t","h","o","u","g","h","t">>,
    <<"c","h","a","i","n">>,
    <<"T","h","o","u","g","h","t">>,
    << >>
  }

\* the providers a batch is started with
Providers == { <<"O","p","e","n","A","I">>, <<"g","e","m","i","n","i">>, <<"b","a","r","d">> }

\* the environments a batch is started in
Environments == {
    [OPENAI_API_KEY |-> k, DEEPSEEK_API_KEY |-> EnvUnset,
     GEMINI_API_KEY |-> EnvUnset, OPENROUTER_API_KEY |-> EnvUnset] :
        k \in { EnvUnset, EnvValue(<< >>), EnvValue(<<"s","k">>) } }

\* the outcomes of the calls of the loop in a batch: an exception, a YES
\* verdict, a NO verdict that is also a query
BatchOutcomes == { CallRaises, CallReturns(ReplyYes), CallReturns(ReplyNo) }

BatchStart(technique, provider, env) ==
    [pc |-> "construct", technique |-> technique, provider |-> provider, env |-> env,
     idx |-> 0, plan |-> NonePlan, prompts |-> NoPrompts, predictions |-> << >>,
     awaiting |-> FALSE, inflight |-> {}, sent |-> 0, error |-> ""]

BatchOff == [BatchStart(<< >>, << >>, << >>) EXCEPT !.pc = "off"]

\* the call the batch makes next: the planner's, or the loop's by its position
NextCallKind ==
    IF batch.pc = "plan" THEN "plan"
    ELSE IF gen_sync.pc = "handler_correct" THEN "correct"
    ELSE gen_sync.pc

\* ModelRouter.generate_sync: asyncio.run starts the coroutine of the call
generate_sync_begin(b, kind) ==
    [b EXCEPT !.awaiting = TRUE,
              !.sent = b.sent + 1,
              !.inflight = b.inflight \cup { [entry |-> b.idx, kind |-> kind, n |-> b.sent + 1] }]

\* generate_sync_end that returns while the call is still running
generate_sync_end_Detached(b) ==
    [b EXCEPT !.awaiting = FALSE]

\* ModelRouter.generate_sync: asyncio.run returns when the call has completed
generate_sync_end(b) ==
    [b EXCEPT !.awaiting = FALSE,
              !.inflight = { c \in b.inflight : c.n # b.sent }]

\* router = ModelRouter(provider=provider, model=model)
BatchConstruct ==
    /\ batch.pc = "construct"
    /\ LET outcome == ModelRouter__init__(batch.provider, batch.env)
       IN  batch' = IF outcome = Constructed
                    THEN [batch EXCEPT !.pc = "for"]
                    ELSE [batch EXCEPT !.pc = "raised", !.error = outcome]
    /\ UNCHANGED << retries, oracle, gen_sync, gen_async, plan_sync, plan_async, cleaner, handler >>

\* "for idx, entry in enumerate(entries, start=1)" up to the test of the
\* technique, or "return predictions" after the last entry
BatchForEntry ==
    /\ batch.pc = "for"
    /\ IF batch.idx >= NumEntries
       THEN /\ batch' = [batch EXCEPT !.pc = "returned"]
            /\ UNCHANGED << retries, plan_sync >>
       ELSE IF py_in(py_lower_text(batch.technique), NameChainOfThought)
       THEN /\ batch' = [batch EXCEPT !.pc = "plan", !.idx = batch.idx + 1, !.plan = NonePlan]
            /\ plan_sync' = PlanStart
            /\ retries' = PlannerDefaultRetries
       ELSE /\ batch' = [batch EXCEPT !.pc = "build", !.idx = batch.idx + 1, !.plan = NonePlan]
            /\ UNCHANGED << retries, plan_sync >>
    /\ UNCHANGED << oracle, gen_sync, gen_async, plan_async, cleaner, handler >>

\* router.generate_sync(...) of the planner or of the loop: the call starts
BatchSend ==
    /\ ~batch.awaiting
    /\ \/ batch.pc = "plan" /\ plan_sync.pc = "loop" /\ plan_sync.attempt < retries
       \/ batch.pc = "loop" /\ gen_sync.pc \in { "initial", "review", "correct", "handler_correct" }
    /\ batch' = generate_sync_begin(batch, NextCallKind)
    /\ UNCHANGED << retries, oracle, gen_sync, gen_async, plan_sync, plan_async, cleaner, handler >>

\* plan_question_sync: the call of an attempt completes
BatchPlanReply ==
    /\ batch.pc = "plan"
    /\ batch.awaiting
    /\ \E o \in PlanOutcomes : plan_sync' = plan_sync_attempt(plan_sync, o)
    /\ batch' = generate_sync_end(batch)
    /\ UNCHANGED << retries, oracle, gen_sync, gen_async, plan_async, cleaner, handler >>

\* plan = planner.plan_question_sync(...) returns
BatchPlanReturn ==
    /\ batch.pc = "plan"
    /\ ~batch.awaiting
    /\ \/ plan_sync.pc = "return"
       \/ plan_sync.pc = "loop" /\ plan_sync.attempt >= retries
    /\ plan_sync' = plan_sync_return(plan_sync)
    /\ batch' = [batch EXCEPT !.pc = "build", !.plan = plan_sync'.result.value]
    /\ UNCHANGED << retries, oracle, gen_sync, gen_async, plan_async, cleaner, handler >>

\* prompts = _build_prompts(question, technique, plan), then the call of
\* _generate_with_retries with retries=3
BatchBuildPrompts ==
    /\ batch.pc = "build"
    /\ LET built == _build_prompts(batch.technique, batch.plan)
       IN  IF built.raises
           THEN /\ batch' = [batch EXCEPT !.pc = "raised",
                                          !.error = UnsupportedTechnique]
                /\ UNCHANGED << retries, gen_sync >>
           ELSE /\ batch' = [batch EXCEPT !.pc = "loop", !.prompts = built.prompts]
                /\ gen_sync' = GenStart
                /\ retries' = BatchLoopRetries
    /\ UNCHANGED << oracle, gen_async, plan_sync, plan_async, cleaner, handler >>

\* _generate_with_retries: the initial call completes
BatchInitialReply ==
    /\ batch.pc = "loop"
    /\ batch.awaiting
    /\ gen_sync.pc = "initial"
    /\ \E o \in BatchOutcomes : gen_sync' = sync_initial(gen_sync, o)
    /\ batch' = generate_sync_end(batch)
    /\ UNCHANGED << retries, oracle, gen_async, plan_sync, plan_async, cleaner, handler >>

\* _generate_with_retries: a review call completes
BatchReviewReply ==
    /\ batch.pc = "loop"
    /\ batch.awaiting
    /\ gen_sync.pc = "review"
    /\ \E o \in BatchOutcomes : gen_sync' = sync_review(gen_sync, o)
    /\ batch' = generate_sync_end(batch)
    /\ UNCHANGED << retries, oracle, gen_async, plan_sync, plan_async, cleaner, handler >>

\* _generate_with_retries: a correction call of the try block completes
BatchCorrectReply ==
    /\ batch.pc = "loop"
    /\ batch.awaiting
    /\ gen_sync.pc = "correct"
    /\ \E o \in BatchOutcomes : gen_sync' = sync_correct(gen_sync, o)
    /\ batch' = generate_sync_end(batch)
    /\ UNCHANGED << retries, oracle, gen_async, plan_sync, plan_async, cleaner, handler >>

\* _generate_with_retries: a correction call of the except block completes
BatchHandlerCorrectReply ==
    /\ batch.pc = "loop"
    /\ batch.awaiting
    /\ gen_sync.pc = "handler_correct"
    /\ \E o \in BatchOutcomes : gen_sync' = sync_handler_correct(gen_sync, o)
    /\ batch' = generate_sync_end(batch)
    /\ UNCHANGED << retries, oracle, gen_async, plan_sync, plan_async, cleaner, handler >>

\* an exception of the capability that left _generate_with_retries
CapabilityException == "Exception of the capability"

\* sparql = _generate_with_retries(...) returns and the record is appended
\* to predictions; an exception that left the loop leaves _generate_entries
BatchAppend ==
    /\ batch.pc = "loop"
    /\ ~batch.awaiting
    /\ gen_sync.pc = "done"
    /\ batch' = IF gen_sync.result.kind = "raise"
                THEN [batch EXCEPT !.pc = "raised", !.error = CapabilityException]
                ELSE [batch EXCEPT !.pc = "for",
                                   !.predictions = Append(batch.predictions,
                                       [id |-> batch.idx, sparql |-> gen_sync.result.value])]
    /\ UNCHANGED << retries, oracle, gen_sync, gen_async, plan_sync, plan_async, cleaner, handler >>

\* ------------------------------------------------------------------------
\* main.py: the /generate request handler
\* ------------------------------------------------------------------------

\* main.py imports build_prompts and generate_with_retries_async from
\* generate_sparql.py, which defines them as _build_prompts and
\* _generate_with_retries_async; the handler is modelled with these two.

\* retries=3 of the call of plan_question_async
HandlerPlanRetries == 3

\* retries=3 of the call of generate_with_retries_async
HandlerLoopRetries == 3

\* the techniques of a request; an empty one gives way to the configured
\* default
RequestTechniques == {
    <<"Z","e","r","o","_","S","h","o","t">>,
    <<"C","h","a","i","n","_","O","f","_","T","h","o","u","g","h","t">>,
    <<"t","r","e","e","_","o","f","_","t","h","o","u","g","h","t">>,
    <<"c","h","a","i","n">>,
    << >>
  }

\* config.default_prompting_technique
DefaultTechniques == { NameZeroShot, NameChainOfThought }

\* Optional[str] of a PlannerItem
NoUri == [some |-> FALSE, value |-> ""]

\* the field plan of a request: absent, a PlannerPlan with every field
\* empty, a PlannerPlan with an entity and a step
NoRequestPlan ==
    [some |-> FALSE,
     value |-> [entities |-> << >>, relations |-> << >>, chain_of_thought |-> << >>]]

RequestPlans == {
    NoRequestPlan,
    [some |-> TRUE,
     value |-> [entities |-> << >>, relations |-> << >>, chain_of_thought |-> << >>]],
    [some |-> TRUE,
     value |-> [entities |-> << [text |-> "Paris", uri |-> NoUri] >>,
                relations |-> << >>,
                chain_of_thought |-> << "find the city" >>]]
  }

\* item.model_dump(): the dict of a PlannerItem
model_dump(item) ==
    [text |-> JStr(item.text),
     uri  |-> IF item.uri.some THEN JStr(item.uri.value) ELSE JNone]

\* the PlannerOutput made of the plan of the request
ClientPlannerOutput(plan) ==
    [entities  |-> [i \in 1..Len(plan.entities) |-> model_dump(plan.entities[i])],
     relations |-> [i \in 1..Len(plan.relations) |-> model_dump(plan.relations[i])],
     chain_of_thought |-> plan.chain_of_thought]

HandlerStart(technique, default, provider, env, plan) ==
    [pc |-> "request",
     request |-> [technique |-> technique, provider |-> provider, plan |-> plan],
     default |-> default, env |-> env,
     technique |-> << >>, plan |-> NonePlan, build_arg |-> NonePlan,
     prompts |-> NoPrompts, trace |-> << >>, error |-> "", sparql |-> << >>]

HandlerOff == [HandlerStart(<< >>, << >>, << >>, << >>, NoRequestPlan) EXCEPT !.pc = "off"]

\* plan_source that tests the technique before the plan of the request
plan_source_TechniqueFirst(request_plan, technique) ==
    IF py_lower_text(technique) \in { NameChainOfThought } THEN "planner"
    ELSE IF request_plan.some THEN "client"
    ELSE "none"

\* where the handler takes the plan from: "if request.plan: ... elif
\* technique.lower() in {"chain_of_thought"}: ..."; a PlannerPlan is true
\* whatever it holds
plan_source(request_plan, technique) ==
    IF request_plan.some THEN "client"
    ELSE IF py_lower_text(technique) \in { NameChainOfThought } THEN "planner"
    ELSE "none"

\* the handler up to its first await: the technique, the capability, the
\* plan of the request or the call of the planner
HandlerReceive ==
    /\ handler.pc = "request"
    /\ LET technique == IF handler.request.technique = << >>
                        THEN handler.default
                        ELSE handler.request.technique
           outcome   == ModelRouter__init__(handler.request.provider, handler.env)
           source    == plan_source(handler.request.plan, technique)
           received  == [handler EXCEPT !.technique = technique]
       IN  IF outcome # Constructed
           THEN /\ handler' = [received EXCEPT !.pc = "http500", !.error = outcome]
                /\ UNCHANGED << retries, plan_async >>
           ELSE IF source = "client"
           THEN /\ handler' = [received EXCEPT
                                  !.pc = "build",
                                  !.plan = SomePlan(ClientPlannerOutput(handler.request.plan.value))]
                /\ UNCHANGED << retries, plan_async >>
           ELSE IF source = "planner"
           THEN /\ handler' = [received EXCEPT !.pc = "plan"]
                /\ plan_async' = PlanStart
                /\ retries' = HandlerPlanRetries
           ELSE /\ handler' = [received EXCEPT !.pc = "build"]
                /\ UNCHANGED << retries, plan_async >>
    /\ UNCHANGED << oracle, gen_sync, gen_async, plan_sync, batch, cleaner >>

\* plan_question_async: the call of an attempt completes
HandlerPlanReply ==
    /\ handler.pc = "plan"
    /\ plan_async.pc = "loop"
    /\ plan_async.attempt < retries
    /\ \E o \in PlanOutcomes : plan_async' = plan_async_attempt(plan_async, o)
    /\ handler' = [handler EXCEPT !.trace = Append(@, "planner")]
    /\ UNCHANGED << retries, oracle, gen_sync, gen_async, plan_sync, batch, cleaner >>

\* plan = await planner.plan_question_async(...) returns
HandlerPlanReturn ==
    /\ handler.pc = "plan"
    /\ \/ plan_async.pc = "return"
       \/ plan_async.pc = "loop" /\ plan_async.attempt >= retries
    /\ plan_async' = plan_async_return(plan_async)
    /\ handler' = [handler EXCEPT !.pc = "build", !.plan = plan_async'.result.value]
    /\ UNCHANGED << retries, oracle, gen_sync, gen_async, plan_sync, batch, cleaner >>

\* prompts = build_prompts(request.question, technique, plan), then the call
\* of generate_with_retries_async with retries=3
HandlerBuildPrompts ==
    /\ handler.pc = "build"
    /\ LET built == _build_prompts(handler.technique, handler.plan)
           called == [handler EXCEPT !.trace = Append(@, "build"),
                                     !.build_arg = handler.plan]
       IN  IF built.raises
           THEN /\ handler' = [called EXCEPT !.pc = "http500",
                                             !.error = UnsupportedTechnique]
                /\ UNCHANGED << retries, gen_async >>
           ELSE /\ handler' = [called EXCEPT !.pc = "loop", !.prompts = built.prompts]
                /\ gen_async' = GenStart
                /\ retries' = HandlerLoopRetries
    /\ UNCHANGED << oracle, gen_sync, plan_sync, plan_async, batch, cleaner >>

\* generate_with_retries_async: the initial call completes
HandlerInitialReply ==
    /\ handler.pc = "loop"
    /\ gen_async.pc = "initial"
    /\ \E o \in BatchOutcomes : gen_async' = async_initial(gen_async, o)
    /\ handler' = [handler EXCEPT !.trace = Append(@, "generate")]
    /\ UNCHANGED << retries, oracle, gen_sync, plan_sync, plan_async, batch, cleaner >>

\* generate_with_retries_async: a review call completes
HandlerReviewReply ==
    /\ handler.pc = "loop"
    /\ gen_async.pc = "review"
    /\ \E o \in BatchOutcomes : gen_async' = async_review(gen_async, o)
    /\ handler' = [handler EXCEPT !.trace = Append(@, "generate")]
    /\ UNCHANGED << retries, oracle, gen_sync, plan_sync, plan_async, batch, cleaner >>

\* generate_with_retries_async: a correction call of the try block completes
HandlerCorrectReply ==
    /\ handler.pc = "loop"
    /\ gen_async.pc = "correct"
    /\ \E o \in BatchOutcomes : gen_async' = async_correct(gen_async, o)
    /\ handler' = [handler EXCEPT !.trace = Append(@, "generate")]
    /\ UNCHANGED << retries, oracle, gen_sync, plan_sync, plan_async, batch, cleaner >>

\* generate_with_retries_async: a correction call of the except block
\* completes
HandlerExceptCorrectReply ==
    /\ handler.pc = "loop"
    /\ gen_async.pc = "handler_correct"
    /\ \E o \in BatchOutcomes : gen_async' = async_handler_correct(gen_async, o)
    /\ handler' = [handler EXCEPT !.trace = Append(@, "generate")]
    /\ UNCHANGED << retries, oracle, gen_sync, plan_sync, plan_async, batch, cleaner >>

\* the loop returns and the handler answers; an exception that left the
\* loop becomes the HTTPException of the except clause
HandlerRespond ==
    /\ handler.pc = "loop"
    /\ gen_async.pc = "done"
    /\ handler' = IF gen_async.result.kind = "raise"
                  THEN [handler EXCEPT !.pc = "http500", !.error = CapabilityException]
                  ELSE [handler EXCEPT !.pc = "responded",
                                       !.sparql = gen_async.result.value]
    /\ UNCHANGED << retries, oracle, gen_sync, gen_async, plan_sync, plan_async, batch, cleaner >>

\* ------------------------------------------------------------------------
\* Specifications
\* ------------------------------------------------------------------------

Init ==
    /\ retries \in 0..MaxRetries
    /\ oracle = << >>
    /\ gen_sync = GenStart
    /\ gen_async = GenStart
    /\ plan_sync = PlanOff
    /\ plan_async = PlanOff
    /\ batch = BatchOff
    /\ cleaner = CleanerOff
    /\ handler = HandlerOff

Next ==
    \/ GenSyncInitial
    \/ GenSyncReview
    \/ GenSyncCorrect
    \/ GenSyncHandlerCorrect
    \/ GenAsyncInitial
    \/ GenAsyncReview
    \/ GenAsyncCorrect
    \/ GenAsyncHandlerCorrect

\* one call of the generation loop, blocking and asynchronous
Spec == Init /\ [][Next]_vars

InitPlanner ==
    /\ retries \in 0..MaxPlanRetries
    /\ oracle = << >>
    /\ gen_sync = GenOff
    /\ gen_async = GenOff
    /\ plan_sync = PlanStart
    /\ plan_async = PlanStart
    /\ batch = BatchOff
    /\ cleaner = CleanerOff
    /\ handler = HandlerOff

NextPlanner ==
    \/ PlanSyncAttempt
    \/ PlanSyncReturn
    \/ PlanAsyncAttempt
    \/ PlanAsyncReturn

\* one call of the planner, blocking and asynchronous
SpecPlanner == InitPlanner /\ [][NextPlanner]_vars

InitBatch ==
    /\ retries = 0
    /\ oracle = << >>
    /\ gen_sync = GenOff
    /\ gen_async = GenOff
    /\ plan_sync = PlanOff
    /\ plan_async = PlanOff
    /\ \E technique \in Techniques, provider \in Providers, env \in Environments :
          batch = BatchStart(technique, provider, env)
    /\ cleaner = CleanerOff
    /\ handler = HandlerOff

NextBatch ==
    \/ BatchConstruct
    \/ BatchForEntry
    \/ BatchSend
    \/ BatchPlanReply
    \/ BatchPlanReturn
    \/ BatchBuildPrompts
    \/ BatchInitialReply
    \/ BatchReviewReply
    \/ BatchCorrectReply
    \/ BatchHandlerCorrectReply
    \/ BatchAppend

\* one call of _generate_entries
SpecBatch == InitBatch /\ [][NextBatch]_vars

InitCleaner ==
    /\ retries = 0
    /\ oracle = << >>
    /\ gen_sync = GenOff
    /\ gen_async = GenOff
    /\ plan_sync = PlanOff
    /\ plan_async = PlanOff
    /\ batch = BatchOff
    /\ \E leading \in Leadings, body \in Bodies, trailing \in Trailings :
          cleaner = CleanerStart(leading, body, trailing)
    /\ handler = HandlerOff

NextCleaner ==
    \/ CleanSparql
    \/ ValidateSparqlStructure
    \/ ParseYesNo
    \/ RouterGenerate

\* the pure functions of the normalizer, the validator, the verdict and the
\* client, each applied to one text
SpecCleaner == InitCleaner /\ [][NextCleaner]_vars

InitHandler ==
    /\ retries = 0
    /\ oracle = << >>
    /\ gen_sync = GenOff
    /\ gen_async = GenOff
    /\ plan_sync = PlanOff
    /\ plan_async = PlanOff
    /\ batch = BatchOff
    /\ cleaner = CleanerOff
    /\ \E technique \in RequestTechniques, default \in DefaultTechniques,
          provider \in Providers, env \in Environments, plan \in RequestPlans :
          handler = HandlerStart(technique, default, provider, env, plan)

NextHandler ==
    \/ HandlerReceive
    \/ HandlerPlanReply
    \/ HandlerPlanReturn
    \/ HandlerBuildPrompts
    \/ HandlerInitialReply
    \/ HandlerReviewReply
    \/ HandlerCorrectReply
    \/ HandlerExceptCorrectReply
    \/ HandlerRespond

\* one request to /generate
SpecHandler == InitHandler /\ [][NextHandler]_vars

\* ------------------------------------------------------------------------
\* Properties of the generation loop (checked under Spec)
\* ------------------------------------------------------------------------

GenRuns == { gen_sync, gen_async }

\* the number of calls of one kind a run has made
CountCalls(g, kind) == Cardinality({ i \in 1..Len(g.calls) : g.calls[i].kind = kind })

\* the k-th call of a run was answered with a reply that is a YES verdict
AnsweredYes(k) == ~oracle[k].exc /\ _parse_yes_no(oracle[k].text)

\* so far no call of the run raised and no review was answered YES
OnlyNoSoFar(g) ==
    \A k \in 1..Len(g.calls) :
        /\ ~oracle[k].exc
        /\ g.calls[k].kind = "review" => ~_parse_yes_no(oracle[k].text)

\* C1: a call of the generation loop ends by returning a string; no
\* exception of the capability escapes the loop
C1_NoExceptionEscapes ==
    \A g \in GenRuns : g.pc = "done" => g.result.kind = "return"

\* C2: one call of the loop makes at most `retries` review calls and at most
\* `retries` correction calls
C2_AtMostRetriesRoundTrips ==
    \A g \in GenRuns :
        /\ CountCalls(g, "review") <= retries
        /\ CountCalls(g, "correct") <= retries

\* C3: when the initial call succeeds and every review answers NO, without
\* exceptions, the loop never makes more than `retries` reviews, never more
\* than 1 + 2 * retries calls, and ends having made exactly `retries` reviews
\* and returning its candidate
C3_AlwaysNoTerminates ==
    \A g \in GenRuns :
        (Len(g.calls) >= 1 /\ OnlyNoSoFar(g)) =>
            /\ CountCalls(g, "review") <= retries
            /\ Len(g.calls) <= 1 + 2 * retries
            /\ g.pc \in { "review", "correct", "done" }
            /\ g.pc = "done" =>
                /\ CountCalls(g, "review") = retries
                /\ g.result = Returned(g.current_sparql)

C3_Witness ==
    /\ retries = MaxRetries
    /\ gen_sync.pc = "done"
    /\ OnlyNoSoFar(gen_sync)
    /\ CountCalls(gen_sync, "review") = MaxRetries
    /\ gen_sync.result.kind = "return"

\* C4: when the initial call succeeds and the first review answers YES, the
\* loop has ended returning the normalized initial reply, with one review
\* call, no correction call and no call after the YES
C4_AcceptOnFirstYes ==
    \A g \in GenRuns :
        (Len(g.calls) >= 2 /\ ~oracle[1].exc /\ AnsweredYes(2)) =>
            /\ g.pc = "done"
            /\ g.result = Returned(clean_sparql(oracle[1].text))
            /\ Len(g.calls) = 2
            /\ g.calls[2] = Prompt("review", clean_sparql(oracle[1].text))
            /\ CountCalls(g, "correct") = 0

C4_Witness ==
    /\ retries = MaxRetries
    /\ oracle = << CallReturns(ReplyNo), CallReturns(ReplyYes) >>
    /\ gen_async.pc = "done"
    /\ gen_async.result = Returned(<<"A","S","K"," ","{","'","a","'","}">>)

\* C5: when the initial call raises, the loop has ended returning the empty
\* string, having made no review call and no correction call
C5_InitialFailureReturnsEmpty ==
    \A g \in GenRuns :
        (Len(g.calls) >= 1 /\ oracle[1].exc) =>
            /\ g.pc = "done"
            /\ g.result = Returned(<< >>)
            /\ Len(g.calls) = 1

C5_Witness ==
    /\ retries = MaxRetries
    /\ oracle = << CallRaises >>
    /\ gen_sync.pc = "done"
    /\ gen_async.pc = "done"
    /\ gen_async.result = Returned(<< >>)

\* C6: the loop always returns a string, and the returned string is empty
\* exactly when the initial call failed
C6_EmptyIffInitialFailed ==
    \A g \in GenRuns :
        g.pc = "done" =>
            /\ g.result.kind = "return"
            /\ g.result.value = << >> <=> oracle[1].exc

\* C11: given the same retry budget and the same outcomes of the capability
\* (replies and exceptions), the asynchronous loop makes the calls the
\* blocking loop made (same kinds, same embedded candidates, same order),
\* never asks for an outcome the blocking loop did not ask for, and ends
\* with the same result: the same returned string or the same escaping
\* exception
C11_LoopSyncAsyncAgree ==
    /\ Len(gen_async.calls) <= Len(gen_sync.calls)
    /\ gen_sync.pc = "done" => Len(oracle) = Len(gen_sync.calls)
    /\ \A k \in 1..Len(gen_async.calls) : gen_async.calls[k] = gen_sync.calls[k]
    /\ (gen_sync.pc = "done" /\ gen_async.pc = "done") =>
          /\ gen_async.calls = gen_sync.calls
          /\ gen_async.result = gen_sync.result

\* both loops ended with the exception of the correction call of the except
\* block, after a correction that replaced the candidate
C11_Witness ==
    /\ retries = MaxRetries
    /\ gen_sync.pc = "done"
    /\ gen_async.pc = "done"
    /\ oracle = << CallReturns(ReplyYes), CallReturns(ReplyNo), CallReturns(ReplyNo),
                  CallRaises, CallRaises >>
    /\ gen_async.calls[4] = Prompt("review", <<"A","S","K"," ","{","'","a","'","}">>)
    /\ gen_async.result = Raised

\* the number of review calls among the first k calls of a run
ReviewsUpTo(g, k) == Cardinality({ i \in 1..k : g.calls[i].kind = "review" })

\* C21: a review call that raises is not fatal to the loop and counts as a
\* NO: the candidate whose review failed is the one handed to the next
\* correction call, one attempt is consumed (the call after that correction
\* is the next review) and the run does not end with an exception
C21_ReviewFailureActsAsNo ==
    \A g \in GenRuns : \A k \in 1..Len(g.calls) :
        (g.calls[k].kind = "review" /\ oracle[k].exc) =>
            /\ g.result.kind # "raise"
            /\ Len(g.calls) > k => g.calls[k + 1] = Prompt("correct", g.calls[k].sparql)
            /\ Len(g.calls) > k + 1 => g.calls[k + 2].kind = "review"

\* C22: after a correction call that raises the candidate is still the
\* rejected one and the correction is not called again in the same attempt:
\* the next call, if any, is the review of that candidate, and a run that
\* ends there returns it
C22_CorrectionFailureKeepsCandidate ==
    \A g \in GenRuns : \A k \in 1..Len(g.calls) :
        (g.calls[k].kind = "correct" /\ oracle[k].exc) =>
            /\ g.result.kind # "raise"
            /\ Len(g.calls) > k => g.calls[k + 1] = Prompt("review", g.calls[k].sparql)
            /\ Len(g.calls) = k =>
                  /\ g.pc \in { "review", "done" }
                  /\ g.pc = "done" => g.result = Returned(g.calls[k].sparql)

\* C23: the loop ends exhausted from reviewing: a NO at the last attempt
\* ends the run with the candidate that review examined and no call after
\* it, a correction is called only while attempts remain, and a run that
\* made a review returns a candidate only right after its review
C23_ExhaustedFromReviewing ==
    \A g \in GenRuns :
        /\ \A k \in 1..Len(g.calls) :
              ( /\ g.calls[k].kind = "review"
                /\ ~oracle[k].exc
                /\ ~_parse_yes_no(oracle[k].text)
                /\ ReviewsUpTo(g, k) = retries ) =>
                  /\ Len(g.calls) = k
                  /\ g.pc = "done"
                  /\ g.result = Returned(g.calls[k].sparql)
        /\ \A k \in 1..Len(g.calls) :
              g.calls[k].kind = "correct" => ReviewsUpTo(g, k) < retries
        /\ (g.pc = "done" /\ g.result.kind = "return" /\ Len(g.calls) >= 2) =>
              g.calls[Len(g.calls)].kind = "review"

\* the call that gave the candidate reviewed at call k: the latest initial
\* or correction call before k that did not raise
CandidateSource(g, k) ==
    CHOOSE j \in 1..(k - 1) :
        /\ g.calls[j].kind \in { "initial", "correct" } /\ ~oracle[j].exc
        /\ \A i \in (j + 1)..(k - 1) :
              ~(g.calls[i].kind \in { "initial", "correct" } /\ ~oracle[i].exc)

\* C29: when a review answers YES the run has ended with that call, it
\* returns the candidate embedded in that review call, and that candidate is
\* the normalized reply of the latest initial or correction call that did
\* not raise
C29_AcceptanceReturnsReviewedCandidate ==
    \A g \in GenRuns : \A k \in 1..Len(g.calls) :
        (g.calls[k].kind = "review" /\ AnsweredYes(k)) =>
            /\ Len(g.calls) = k
            /\ g.pc = "done"
            /\ g.result = Returned(g.calls[k].sparql)
            /\ g.calls[k].sparql = clean_sparql(oracle[CandidateSource(g, k)].text)

\* accepted at the second review, after a correction that raised and a
\* correction of the except block that replaced the candidate
C29_Witness ==
    /\ retries = MaxRetries
    /\ oracle = << CallReturns(ReplyYes), CallReturns(ReplyNo), CallRaises,
                  CallReturns(ReplyNo), CallReturns(ReplyYes) >>
    /\ gen_sync.pc = "done"
    /\ gen_sync.calls[5] = Prompt("review", <<"A","S","K"," ","{","'","a","'","}">>)
    /\ gen_sync.result = Returned(<<"A","S","K"," ","{","'","a","'","}">>)

\* ------------------------------------------------------------------------
\* Properties of the planner (checked under SpecPlanner)
\* ------------------------------------------------------------------------

PlanRuns == { plan_sync, plan_async }

\* the k-th attempt was answered with a reply that validates as a Plan
AttemptValidates(k) == ~oracle[k].exc /\ parse_plan(oracle[k].text).kind = "plan"

\* a Plan value: the three fields, each a sequence
IsPlan(v) ==
    /\ v.some
    /\ DOMAIN v.value = { "entities", "relations", "chain_of_thought" }
    /\ \A f \in DOMAIN v.value : DOMAIN v.value[f] = 1..Len(v.value[f])

\* C7: whatever the capability does (valid JSON, invalid JSON, JSON of the
\* wrong shape, an exception), the planner never raises and what it returns
\* is a Plan
C7_PlannerNeverRaises ==
    \A p \in PlanRuns :
        /\ p.result.kind # "raise"
        /\ p.pc = "done" => p.result.kind = "return" /\ IsPlan(p.result.value)

C7_Witness ==
    /\ plan_sync.pc = "done"
    /\ Len(plan_sync.calls) = 3
    /\ oracle[1] = CallRaises
    /\ oracle[2] = CallReturns(PlanReplyNotObject)
    /\ oracle[3] = CallReturns(PlanReplyWrongShape)
    /\ plan_sync.result.kind = "return"

\* C8: the planner stops at the first attempt whose response validates: it
\* returns that Plan, also when the Plan is all-empty, makes no call after
\* it, and never makes more than `retries` calls
C8_StopsAtFirstValidPlan ==
    \A p \in PlanRuns :
        /\ Len(p.calls) <= retries
        /\ \A k \in 1..Len(p.calls) :
              AttemptValidates(k) =>
                  /\ Len(p.calls) = k
                  /\ p.pc \in { "return", "done" }
                  /\ p.plan = SomePlan(parse_plan(oracle[k].text).plan)
                  /\ p.pc = "done" => p.result = [kind |-> "return", value |-> p.plan]

C8_Witness ==
    /\ retries = 3
    /\ oracle = << CallReturns(PlanReplyTruncated), CallReturns(PlanReplyEmptyObject) >>
    /\ plan_sync.pc = "done"
    /\ plan_async.pc = "done"
    /\ plan_async.result.value = SomePlan(PlannerOutput)

\* C9: when every one of the `retries` attempts fails, the planner returns
\* the all-empty Plan
C9_AllAttemptsFailGivesEmptyPlan ==
    \A p \in PlanRuns :
        ( /\ p.pc = "done"
          /\ \A k \in 1..Len(p.calls) : ~AttemptValidates(k) ) =>
            /\ Len(p.calls) = retries
            /\ p.result = [kind |-> "return", value |-> SomePlan(PlannerOutput)]

C9_Witness ==
    /\ retries = 3
    /\ plan_sync.pc = "done"
    /\ oracle = << CallReturns(PlanReplyWrongShape), CallRaises, CallReturns(PlanReplyNotObject) >>
    /\ plan_sync.result.value = SomePlan(PlannerOutput)

\* C10: given the same outcomes of the capability, the asynchronous planner
\* makes the calls the blocking planner made, never asks for an outcome the
\* blocking planner did not ask for, and returns an equal Plan
C10_PlannerSyncAsyncAgree ==
    /\ Len(plan_async.calls) <= Len(plan_sync.calls)
    /\ plan_sync.pc = "done" => Len(oracle) = Len(plan_sync.calls)
    /\ (plan_sync.pc = "done" /\ plan_async.pc = "done") =>
          /\ plan_async.calls = plan_sync.calls
          /\ plan_async.result = plan_sync.result

C10_Witness ==
    /\ plan_sync.pc = "done"
    /\ plan_async.pc = "done"
    /\ oracle = << CallRaises, CallReturns(PlanReplyProse) >>
    /\ plan_async.result.value.value.chain_of_thought = << "s", "2" >>
    /\ Len(plan_async.result.value.value.entities) = 1

\* the keys parse_plan reads
PlanKeys == { "entities", "relations", "chain_of_thought", "plan" }

\* C25: a reply that decodes to an object in which one of the keys entities,
\* relations, chain_of_thought or plan is present with a value that is no
\* list (a string, a number, a boolean, null or an object, the empty and
\* zero ones included) fails validation: the attempt yields no Plan
C25_NonSequenceFieldFailsValidation ==
    \A p \in PlanRuns : \A k \in 1..Len(p.calls) :
        LET decoded == json_loads(clean_json(oracle[k].text))
        IN  ( /\ ~oracle[k].exc
              /\ decoded.ok
              /\ decoded.value.t = "dict"
              /\ \E key \in PlanKeys :
                    /\ key \in DOMAIN decoded.value.v
                    /\ decoded.value.v[key].t # "list"
              /\ Len(p.calls) = k ) =>
                ~p.plan.some

\* text is the object J with text without braces before and after it
Wraps(text, J) ==
    \E i \in 1..Len(text) :
        /\ MatchAt(text, i, J)
        /\ \A j \in (1..(i - 1)) \cup ((i + Len(J))..Len(text)) : text[j] \notin { "{", "}" }

\* the Plan of PlanJson: the entity records and the relation record in
\* order, the number among the entities dropped, both steps as text
PlanJsonPlan ==
    [entities |-> << [t |-> JStr("A")], [t |-> JStr("B")] >>,
     relations |-> << [t |-> JStr("R")] >>,
     chain_of_thought |-> << "s", "2" >>]

\* C26: prose or a code fence around a JSON object changes nothing: a reply
\* that wraps an object in text without braces yields what the object alone
\* yields, and for PlanJson that is the Plan with its records in order,
\* without the elements that are no records, and with every step as text
C26_ProseAroundObjectIgnored ==
    \A p \in PlanRuns : \A k \in 1..Len(p.calls) :
        \A d \in 1..Len(JsonDocuments) :
            ( /\ ~oracle[k].exc
              /\ JsonDocuments[d].value.t = "dict"
              /\ Wraps(oracle[k].text, JsonDocuments[d].payload)
              /\ Len(p.calls) = k ) =>
                LET alone == parse_plan(JsonDocuments[d].payload)
                IN  /\ p.plan = IF alone.kind = "plan" THEN SomePlan(alone.plan) ELSE NonePlan
                    /\ JsonDocuments[d].payload = PlanJson => p.plan = SomePlan(PlanJsonPlan)

\* the object inside prose was the second reply and gave the Plan
C26_Witness ==
    /\ oracle = << CallReturns(PlanReplyTruncated), CallReturns(PlanReplyWrapped) >>
    /\ plan_sync.pc = "done"
    /\ plan_async.pc = "done"
    /\ plan_async.result.value = SomePlan(PlanJsonPlan)

\* ------------------------------------------------------------------------
\* Properties of the normalizer, the validator and the client (checked
\* under SpecCleaner)
\* ------------------------------------------------------------------------

\* C14: the normalizer is idempotent: applied to its own output it gives
\* that output back
C14_NormalizerIdempotent ==
    cleaner.passes >= 2 => cleaner.cleaned = cleaner.previous

\* C15: the output of the normalizer holds no double quote: an escaped
\* double quote and a double quote both come out as a single quote with no
\* backslash before it
C15_NoDoubleQuoteInOutput ==
    cleaner.passes >= 1 =>
        \A i \in 1..Len(cleaner.cleaned) :
            /\ cleaner.cleaned[i] # "\""
            /\ (i > 1 /\ cleaner.cleaned[i] = "'") => cleaner.cleaned[i - 1] # "\\"

\* a fenced query with escaped double quotes came out with single quotes
C15_Witness ==
    /\ cleaner.passes = 1
    /\ cleaner.leading = PreFence
    /\ cleaner.body = BodyEscapedQuotes
    /\ cleaner.trailing = PostFence
    /\ cleaner.cleaned = <<"A","S","K"," ","{","'","a","'","}">>

\* the letters of no start keyword occur in the text, in any case
NoStartKeywordIn(text) ==
    \A k \in 1..Len(StartKeywords), i \in 1..Len(text) : ~MatchAtCI(text, i, StartKeywords[k])

NoClosingBraceIn(text) == \A i \in 1..Len(text) : text[i] # "}"

\* a query text: it begins with a start keyword and ends with a closing
\* brace, holds no double quote, and its only blank space is single spaces
IsPlainQuery(text) ==
    /\ StartKeywordAt(text, 1)
    /\ text[Len(text)] = "}"
    /\ \A i \in 1..Len(text) :
          /\ text[i] # "\""
          /\ text[i] \in Whitespace => (text[i] = " " /\ text[i + 1] \notin Whitespace)

\* the text as the extraction stage receives it
BeforeExtraction(raw) ==
    TheOne({ remove_leading_phrases(t2) : t2 \in
           { normalize_quotes(t1) : t1 \in
           { remove_fences(t0) : t0 \in { py_strip(raw) } } } })

\* C16: a query text wrapped in a leading part without start keyword (code
\* fence, lead-in, prose) and a trailing part without closing brace (code
\* fence, commentary) normalizes to exactly the query text; a text without
\* start keyword loses nothing at the front, and a text without closing
\* brace loses nothing at the end
C16_ExtractsWrappedQuery ==
    (cleaner.passes = 1 /\ cleaner.raw # << >>) =>
        \E t3 \in { BeforeExtraction(cleaner.raw) } :
            /\ ( /\ IsPlainQuery(cleaner.body)
                 /\ NoStartKeywordIn(cleaner.leading)
                 /\ NoClosingBraceIn(cleaner.trailing) ) => cleaner.cleaned = cleaner.body
            /\ NoStartKeywordIn(cleaner.raw) =>
                  cleaner.cleaned = collapse_whitespace(keep_until_final_brace(t3))
            /\ NoClosingBraceIn(cleaner.raw) =>
                  cleaner.cleaned = collapse_whitespace(extract_start(t3))

\* a query in lower case between a fence with prose and a fence with a
\* comment came out alone
C16_Witness ==
    /\ cleaner.passes = 1
    /\ cleaner.leading = PreFenceProse
    /\ cleaner.body = BodyLowerQuery
    /\ cleaner.trailing = PostFenceComment
    /\ cleaner.cleaned = BodyLowerQuery

\* one of SELECT, ASK, CONSTRUCT, DESCRIBE stands at the very start of the text
KeywordAtStart(text) ==
    \E k \in 1..Len(ValidationKeywords) : MatchAtCI(text, 1, ValidationKeywords[k])

\* one of them stands elsewhere as a token of its own, blank space of any
\* kind on both sides
KeywordAsToken(text) ==
    \E k \in 1..Len(ValidationKeywords), i \in 2..Len(text) :
        /\ MatchAtCI(text, i, ValidationKeywords[k])
        /\ text[i - 1] \in Whitespace
        /\ i + Len(ValidationKeywords[k]) <= Len(text)
        /\ text[i + Len(ValidationKeywords[k])] \in Whitespace

\* C17: validate_sparql_structure is true exactly when the text is not
\* empty, holds one of the four keywords at its very start or as a token
\* delimited by blank space of any kind, and holds both braces
C17_ValidIffKeywordAndBraces ==
    cleaner.pc = "validated" =>
        ( cleaner.valid <=>
            /\ cleaner.raw # << >>
            /\ KeywordAtStart(cleaner.raw) \/ KeywordAsToken(cleaner.raw)
            /\ \E i \in 1..Len(cleaner.raw) : cleaner.raw[i] = "{"
            /\ \E i \in 1..Len(cleaner.raw) : cleaner.raw[i] = "}" )

\* C18: the capability returns the reply of the backend as the backend
\* gave it, blank space at its ends included
C18_ReplyReturnedUnchanged ==
    cleaner.pc = "replied" => cleaner.reply = cleaner.raw

\* C24: the verdict of a review reply is YES exactly when the reply, after
\* its leading blank space, starts with the letters y, e, s in any letter
\* case; every other reply, the empty one included, is a NO
C24_YesIffTrimmedStartsWithYes ==
    cleaner.pc = "judged" =>
        ( cleaner.yes <=>
            \E i \in 1..Len(cleaner.raw) :
                /\ \A j \in 1..(i - 1) : cleaner.raw[j] \in Whitespace
                /\ MatchAtCI(cleaner.raw, i, WordYES) )

\* a reply with blank space before a yes in mixed case is a YES
C24_Witness ==
    /\ cleaner.pc = "judged"
    /\ cleaner.leading = PreBlank
    /\ cleaner.body = BodyYes
    /\ cleaner.yes

\* ------------------------------------------------------------------------
\* Properties of batch mode (checked under SpecBatch)
\* ------------------------------------------------------------------------

NameGraphOfThought == <<"g","r","a","p","h","_","o","f","_","t","h","o","u","g","h","t">>

NameDynamic == <<"d","y","n","a","m","i","c">>

\* the technique names the specification enumerates
EnumeratedTechniques == { NameZeroShot, NameChainOfThought, NameGraphOfThought, NameDynamic }

\* _build_prompts has failed for the current entry
BuildFailed == batch.pc = "raised" /\ batch.error = UnsupportedTechnique

\* _build_prompts has returned a prompt pair for the current entry
BuildReturned ==
    /\ batch.idx >= 1
    /\ \/ batch.pc \in { "loop", "for", "returned" }
       \/ batch.pc = "raised" /\ batch.error = CapabilityException

\* C12: building prompts fails with the unsupported-technique error exactly
\* for the techniques that, compared case-insensitively, are none of
\* zero_shot, chain_of_thought, graph_of_thought, dynamic
C12_FailsExactlyOutsideEnumeratedSet ==
    (BuildFailed \/ BuildReturned) =>
        (BuildFailed <=> py_lower_text(batch.technique) \notin EnumeratedTechniques)

\* C13: for the techniques graph_of_thought and dynamic building prompts does
\* not fail: it returns a (system, user) prompt pair and the generation loop
\* is entered with it
C13_PlaceholderPromptsForUnimplemented ==
    ( /\ py_lower_text(batch.technique) \in { NameGraphOfThought, NameDynamic }
      /\ (BuildFailed \/ BuildReturned) ) =>
        /\ BuildReturned
        /\ batch.prompts # NoPrompts
        /\ gen_sync.pc # "off"

\* C27: a batch gives one record per entry, in dataset order, whatever the
\* backend does: a failure of the backend never ends the batch (it ends
\* early only for a provider, credential or technique that is refused), the
\* records made so far are those of the entries 1, 2, ... in order, and a
\* batch that returns has a record for every entry
C27_OneRecordPerEntry ==
    /\ batch.pc = "raised" =>
          batch.error \in { UnsupportedProvider, ApiKeyNotSet, UnsupportedTechnique }
    /\ \A i \in 1..Len(batch.predictions) : batch.predictions[i].id = i
    /\ batch.pc = "returned" => Len(batch.predictions) = NumEntries

\* C28: the planner is called for an entry only if the technique, letter
\* case ignored, is exactly chain_of_thought, and a technique that is
\* refused is refused before any capability call has been made
C28_PlannerOnlyForChainOfThought ==
    /\ plan_sync # PlanOff => py_lower_text(batch.technique) = NameChainOfThought
    /\ BuildFailed => batch.sent = 0

\* the provider is none of the router's, or the environment variable its
\* client reads holds no API key
CredentialOrProviderMissing ==
    ~\E i \in 1..Len(ProviderClients) :
        /\ ProviderClients[i].name = py_lower_text(batch.provider)
        /\ batch.env[ProviderClients[i].key].set
        /\ batch.env[ProviderClients[i].key].value # << >>

\* the batch ended in the constructor of the capability
ConstructionFailed ==
    batch.pc = "raised" /\ batch.error \in { UnsupportedProvider, ApiKeyNotSet }

\* C19: an unknown provider or a missing credential fails the construction
\* of the capability: once the constructor has run the batch has ended
\* there, and in a run whose construction failed no capability call
\* (planner, initial, review, correction) has been made or is in flight
C19_ConstructionFailsFast ==
    /\ (batch.pc # "construct" /\ CredentialOrProviderMissing) => ConstructionFailed
    /\ ConstructionFailed =>
          /\ CredentialOrProviderMissing
          /\ batch.sent = 0
          /\ batch.inflight = {}
          /\ batch.idx = 0
          /\ gen_sync = GenOff
          /\ plan_sync = PlanOff

\* a known provider whose API key is set to the empty string
C19_Witness ==
    /\ batch.provider = <<"O","p","e","n","A","I">>
    /\ batch.env.OPENAI_API_KEY = EnvValue(<< >>)
    /\ batch.pc = "raised"
    /\ batch.error = ApiKeyNotSet
    /\ batch.sent = 0

\* C20: in a batch at most one capability call is in flight at any time,
\* every call in flight belongs to the entry being processed, and while
\* entry i is processed the records of the entries 1..i-1 are complete, so
\* every call for entry i has completed before the first call for entry i+1
\* starts
C20_OneCallInFlight ==
    /\ Cardinality(batch.inflight) <= 1
    /\ \A c \in batch.inflight : c.entry = batch.idx /\ c.n = batch.sent
    /\ batch.awaiting <=> batch.inflight # {}
    /\ batch.pc \in { "plan", "build", "loop" } => Len(batch.predictions) = batch.idx - 1
    /\ batch.pc \in { "for", "returned" } =>
          Len(batch.predictions) = batch.idx /\ batch.inflight = {}

\* the second entry's review call is in flight after a planner call, an
\* initial call and more for the first entry
C20_Witness ==
    /\ py_lower_text(batch.technique) = NameChainOfThought
    /\ batch.idx = 2
    /\ Len(batch.predictions) = 1
    /\ batch.sent >= 6
    /\ \E c \in batch.inflight : c.entry = 2 /\ c.kind = "review"

\* ------------------------------------------------------------------------
\* Properties of the /generate handler (checked under SpecHandler)
\* ------------------------------------------------------------------------

\* the capability was constructed and the handler is past its first step
HandlerPastReceive ==
    /\ handler.pc \notin { "off", "request" }
    /\ handler.error \notin { UnsupportedProvider, ApiKeyNotSet }

====
